---- MODULE Spec2Model ----
(***************************************************************************)
(* Model of pm.cpp: the LPM/UPM micro-benchmark driver.                    *)
(*                                                                         *)
(* main() is a straight-line program: resolve the three positional         *)
(* arguments, generate N normal samples from a fixed seed, call both       *)
(* kernels once untimed, time each kernel with bench_best_ms (best of 3),   *)
(* print the report, return 0.  Every exception (std::stoll / std::stod,   *)
(* the vector allocation, a kernel) is uncaught and ends the process in    *)
(* std::terminate.                                                         *)
(*                                                                         *)
(* Numbers.  TLC integers are 32 bit, so the 64-bit types of the program   *)
(* are scaled: std::size_t is arithmetic modulo 2^WordBits and long long   *)
(* ranges over -2^(WordBits-1) .. 2^(WordBits-1)-1.  A double is a         *)
(* fixed-point integer, the value times 10^FracDigits.  A command-line     *)
(* token is a tuple of one-character strings.                              *)
(***************************************************************************)
EXTENDS Integers, Sequences, FiniteSets, TLC

VARIABLES
    argv,       \* the positional tokens argv[1..argc-1]
    pc,         \* position of main()
    status,     \* "running", "exit0" (return 0) or "terminate" (std::terminate)
    exception,  \* type of the uncaught exception, "none" when there is none
    N,          \* std::size_t N
    degree,     \* double degree
    target,     \* double target
    x,          \* std::vector<double> x
    rng,        \* state of std::mt19937_64 rng
    i,          \* index of the generation loop
    guard,      \* volatile double guard
    lpm_val,    \* double lpm_val
    upm_val,    \* double upm_val
    lpm_ms,     \* const auto lpm_ms (NotYet until initialised)
    upm_ms,     \* const auto upm_ms (NotYet until initialised)
    fn,         \* bench_best_ms: which lambda the running call was given
    reps,       \* bench_best_ms: int reps
    best,       \* bench_best_ms: long long best
    bi,         \* bench_best_ms: loop index i
    stdout,     \* lines written to std::cout
    \* ---- history variables (observations of the run, never read by the program)
    path,       \* the steps of main() begun so far, in order
    writes,     \* the indices of x assigned by the generation loop, in order
    measured,   \* elapsed clock ticks of the executions of the running/last bench call
    calls,      \* calls[k][m]: number of invocations of kernel k in mode m
    rets,       \* rets[k][m]: value returned by the latest invocation of kernel k in mode m
    argsSeen    \* the (degree, data, target) argument triples handed to the kernels

vars == <<argv, pc, status, exception, N, degree, target, x, rng, i, guard,
          lpm_val, upm_val, lpm_ms, upm_ms, fn, reps, best, bi, stdout,
          path, writes, measured, calls, rets, argsSeen>>

(***************************************************************************)
(* Bounds of the model.                                                    *)
(***************************************************************************)
\* Largest sample sequence the modelled machine can allocate (elements).
MaxN == 12
\* Largest elapsed time of one timed execution, in clock ticks.
MaxElapsed == 3
\* Largest repetition count given to bench_best_ms when it is checked alone.
MaxReps == 3

(***************************************************************************)
(* Program constants and the scaled machine.                               *)
(***************************************************************************)
WordBits == 30
SizeofDouble == 8
TicksPerMs == 2
FracDigits == 3
DefaultN == 12000000
DefaultDegree == 2
DefaultTarget == 0
DefaultReps == 3
Seed == 123456789
ReportPrecision == 10
RngBits == 6

WordModulus == 2 ^ WordBits
LLongMax == 2 ^ (WordBits - 1) - 1
Scale == 10 ^ FracDigits
RngModulus == 2 ^ RngBits
NotYet == 0 - 1

Kernels == {"LPM", "UPM"}
Modes == {"warm", "timed"}

(***************************************************************************)
(* std::stoll and std::stod.                                               *)
(***************************************************************************)
Digits == {"0", "1", "2", "3", "4", "5", "6", "7", "8", "9"}

DigitVal(c) ==
    CASE c = "0" -> 0 [] c = "1" -> 1 [] c = "2" -> 2 [] c = "3" -> 3
      [] c = "4" -> 4 [] c = "5" -> 5 [] c = "6" -> 6 [] c = "7" -> 7
      [] c = "8" -> 8 [] c = "9" -> 9

\* Index of the first character at or after p that is not white space.
RECURSIVE SkipSpace(_, _)
SkipSpace(tok, p) ==
    IF p <= Len(tok) /\ tok[p] = " " THEN SkipSpace(tok, p + 1) ELSE p

\* Index just after the run of decimal digits that starts at p.
RECURSIVE DigitRunEnd(_, _)
DigitRunEnd(tok, p) ==
    IF p <= Len(tok) /\ tok[p] \in Digits THEN DigitRunEnd(tok, p + 1) ELSE p

\* Value of the digits tok[p..q-1]; LLongMax + 2 stands for every value
\* above LLongMax + 1 (strtoll's overflow).
RECURSIVE DecValue(_, _, _, _)
DecValue(tok, p, q, acc) ==
    IF p >= q THEN acc
    ELSE IF acc > (LLongMax + 1) \div 10 THEN LLongMax + 2
    ELSE DecValue(tok, p + 1, q, acc * 10 + DigitVal(tok[p]))

HasSign(tok, p) == p <= Len(tok) /\ tok[p] \in {"-", "+"}

\* std::stoll(tok): white space, an optional sign, then the longest run of
\* digits.  Characters after the run are ignored (the pos argument is unused).
Stoll(tok) ==
    LET p0  == SkipSpace(tok, 1)
        p1  == IF HasSign(tok, p0) THEN p0 + 1 ELSE p0
        neg == HasSign(tok, p0) /\ tok[p0] = "-"
        p2  == DigitRunEnd(tok, p1)
        mag == DecValue(tok, p1, p2, 0)
    IN  IF p2 = p1 THEN [ok |-> FALSE, exc |-> "invalid_argument", val |-> 0]
        ELSE IF (neg /\ mag > LLongMax + 1) \/ (~neg /\ mag > LLongMax)
             THEN [ok |-> FALSE, exc |-> "out_of_range", val |-> 0]
        ELSE [ok |-> TRUE, exc |-> "none", val |-> IF neg THEN 0 - mag ELSE mag]

\* The first FracDigits digits of tok[p..q-1] as a fixed-point fraction.
RECURSIVE FracValue(_, _, _, _)
FracValue(tok, p, q, place) ==
    IF p >= q \/ place = 0 THEN 0
    ELSE DigitVal(tok[p]) * place + FracValue(tok, p + 1, q, place \div 10)

\* std::stod(tok) on decimal tokens: white space, an optional sign, digits,
\* an optional point and digits; at least one digit is required.  Characters
\* after the number are ignored.
Stod(tok) ==
    LET p0  == SkipSpace(tok, 1)
        p1  == IF HasSign(tok, p0) THEN p0 + 1 ELSE p0
        neg == HasSign(tok, p0) /\ tok[p0] = "-"
        p2  == DigitRunEnd(tok, p1)
        dot == p2 <= Len(tok) /\ tok[p2] = "."
        p3  == IF dot THEN DigitRunEnd(tok, p2 + 1) ELSE p2
        nd  == (p2 - p1) + (IF dot THEN p3 - (p2 + 1) ELSE 0)
        mag == DecValue(tok, p1, p2, 0) * Scale
               + (IF dot THEN FracValue(tok, p2 + 1, p3, Scale \div 10) ELSE 0)
    IN  IF nd = 0 THEN [ok |-> FALSE, exc |-> "invalid_argument", val |-> 0]
        ELSE [ok |-> TRUE, exc |-> "none", val |-> IF neg THEN 0 - mag ELSE mag]

\* Index just after the characters std::stoll / std::stod consume.
StollEnd(tok) ==
    LET p0 == SkipSpace(tok, 1)
    IN  DigitRunEnd(tok, IF HasSign(tok, p0) THEN p0 + 1 ELSE p0)

StodEnd(tok) ==
    LET p2 == StollEnd(tok)
    IN  IF p2 <= Len(tok) /\ tok[p2] = "." THEN DigitRunEnd(tok, p2 + 1) ELSE p2

\* static_cast<std::size_t>(long long): reduction modulo 2^WordBits.
ToSizeT(v) == v % WordModulus


\* std::vector<double>::max_size(): the largest element count whose byte size
\* fits the signed word.
VectorMaxSize == LLongMax \div SizeofDouble

\* std::vector<double> x(n): n value-initialised elements.
VectorOfSizePlusOne(n) == [j \in 1..(n + 1) |-> 0]

VectorOfSize(n) == [j \in 1..n |-> 0]

(***************************************************************************)
(* The generator.  std::mt19937_64 and std::normal_distribution are        *)
(* deterministic state machines; the model keeps that and nothing else:    *)
(* the engine state is a number below 2^RngBits, a draw advances it and    *)
(* returns a value that is a function of the state before the draw.        *)
(***************************************************************************)
RngInitFromDegree == (Seed + degree) % RngModulus

RngInit == Seed % RngModulus

RngStep(s) == (s * 5 + 3) % RngModulus

DistOut(s) == ((RngStep(s) % 7) - 3) * (Scale \div 2)

(***************************************************************************)
(* The kernels NNS::LPM and NNS::UPM (partial_moments.hpp).  A call        *)
(* returns some double or throws; it takes the sample sequence as a        *)
(* read-only view.                                                         *)
(***************************************************************************)
\* The results tried: 0.0 and 1.0.
KernelResults == {0, Scale}

KernelEffectOnData(k, data) == data

(***************************************************************************)
(* time_ms and bench_best_ms.                                              *)
(***************************************************************************)
\* duration_cast<milliseconds>(t1 - t0).count() for t1 - t0 = elapsed ticks.
TimeMs(elapsed) == elapsed \div TicksPerMs

StdMinLast(b, t) == t

\* std::min(best, t)
StdMin(b, t) == IF t < b THEN t ELSE b

LambdaStoreBoth(f, r) == <<r, r>>

\* The two lambdas: each stores the kernel's result in its own variable.
\* The value is the new pair <<lpm_val, upm_val>>.
LambdaStore(f, r) == IF f = "LPM" THEN <<r, upm_val>> ELSE <<lpm_val, r>>

GuardAddDropped(g, r) == g

\* guard += r
GuardAdd(g, r) == g + r

(***************************************************************************)
(* The report.                                                             *)
(***************************************************************************)
RECURSIVE NumDigits(_)
NumDigits(n) == IF n < 10 THEN 1 ELSE 1 + NumDigits(n \div 10)

Abs(v) == IF v < 0 THEN 0 - v ELSE v

\* operator<< of a double under std::setprecision(prec): the value rounded to
\* prec significant decimal digits.
FormatDouble(v, prec) ==
    LET a == Abs(v)
        d == NumDigits(a)
        u == IF d > prec THEN 10 ^ (d - prec) ELSE 1
        q == ((a + (u \div 2)) \div u) * u
    IN  IF v < 0 THEN 0 - q ELSE q

Line(text, vals) == [text |-> text, vals |-> vals]

ReportLinesWarm ==
    << Line("===== LPM & UPM Performance (ms) =====", <<>>),
       Line("C++ (NNS) LPM: # ms, UPM: # ms", <<lpm_ms, upm_ms>>),
       Line("The sample size when #", <<N>>),
       Line("", <<>>),
       Line("Results (degree=#, target=#)",
            <<FormatDouble(degree, ReportPrecision),
              FormatDouble(target, ReportPrecision)>>),
       Line("LPM = #", <<FormatDouble(rets["LPM"]["warm"], ReportPrecision)>>),
       Line("UPM = #", <<FormatDouble(rets["UPM"]["warm"], ReportPrecision)>>) >>

ReportLines ==
    << Line("===== LPM & UPM Performance (ms) =====", <<>>),
       Line("C++ (NNS) LPM: # ms, UPM: # ms", <<lpm_ms, upm_ms>>),
       Line("The sample size when #", <<N>>),
       Line("", <<>>),
       Line("Results (degree=#, target=#)",
            <<FormatDouble(degree, ReportPrecision),
              FormatDouble(target, ReportPrecision)>>),
       Line("LPM = #", <<FormatDouble(lpm_val, ReportPrecision)>>),
       Line("UPM = #", <<FormatDouble(upm_val, ReportPrecision)>>) >>

(***************************************************************************)
(* Inputs.                                                                 *)
(***************************************************************************)
Tokens ==
    { <<"2">>,
      <<"-", "1">>,
      <<"1", "2", "a", "b", "c">>,
      <<"a", "b", "c">>,
      <<"0", ".", "1">> }

MaxArgs == 3

Argvs == UNION {[1..n -> Tokens] : n \in 0..MaxArgs}

(***************************************************************************)
(* Control.                                                                *)
(***************************************************************************)
RaiseCaught(exc) ==
    /\ pc' = IF exc = "kernel_error" THEN "report" ELSE "aborted"
    /\ status' = IF exc = "kernel_error" THEN status ELSE "terminate"
    /\ exception' = exc

\* An exception nobody catches: std::terminate ends the process abnormally.
Raise(exc) ==
    /\ pc' = "aborted"
    /\ status' = "terminate"
    /\ exception' = exc

Goto(label) ==
    /\ pc' = label
    /\ UNCHANGED <<status, exception>>

AfterBenchSkip(f) == "report"

\* Where main() continues when bench_best_ms returns.
AfterBench(f) == IF f = "LPM" THEN "time_upm" ELSE "report"

\* The history of one kernel invocation.
Invoke(k, m) ==
    /\ calls' = [calls EXCEPT ![k][m] = @ + 1]
    /\ argsSeen' = argsSeen \cup {<<degree, x, target>>}
    /\ x' = KernelEffectOnData(k, x)

Init ==
    /\ argv \in Argvs
    /\ pc = "parse_n"
    /\ status = "running"
    /\ exception = "none"
    /\ N = DefaultN
    /\ degree = DefaultDegree * Scale
    /\ target = DefaultTarget * Scale
    /\ x = <<>>
    /\ rng = 0
    /\ i = 0
    /\ guard = 0
    /\ lpm_val = 0
    /\ upm_val = 0
    /\ lpm_ms = NotYet
    /\ upm_ms = NotYet
    /\ fn = "none"
    /\ reps = 0
    /\ best = 0
    /\ bi = 0
    /\ stdout = <<>>
    /\ path = <<>>
    /\ writes = <<>>
    /\ measured = <<>>
    /\ calls = [k \in Kernels |-> [m \in Modes |-> 0]]
    /\ rets = [k \in Kernels |-> [m \in Modes |-> NotYet]]
    /\ argsSeen = {}

\* if (argc > 1) N = static_cast<std::size_t>(std::stoll(argv[1]));
ParseN ==
    /\ pc = "parse_n"
    /\ path' = Append(path, "ParseArgs")
    /\ IF Len(argv) >= 1
       THEN LET r == Stoll(argv[1])
            IN  IF r.ok THEN N' = ToSizeT(r.val) /\ Goto("parse_degree")
                ELSE N' = N /\ Raise(r.exc)
       ELSE N' = N /\ Goto("parse_degree")
    /\ UNCHANGED <<argv, degree, target, x, rng, i, guard, lpm_val, upm_val,
                   lpm_ms, upm_ms, fn, reps, best, bi, stdout, writes,
                   measured, calls, rets, argsSeen>>

\* if (argc > 2) degree = std::stod(argv[2]);
ParseDegree ==
    /\ pc = "parse_degree"
    /\ IF Len(argv) >= 2
       THEN LET r == Stod(argv[2])
            IN  IF r.ok THEN degree' = r.val /\ Goto("parse_target")
                ELSE degree' = degree /\ Raise(r.exc)
       ELSE degree' = degree /\ Goto("parse_target")
    /\ UNCHANGED <<argv, N, target, x, rng, i, guard, lpm_val, upm_val,
                   lpm_ms, upm_ms, fn, reps, best, bi, stdout, path, writes,
                   measured, calls, rets, argsSeen>>

\* if (argc > 3) target = std::stod(argv[3]);
ParseTarget ==
    /\ pc = "parse_target"
    /\ IF Len(argv) >= 3
       THEN LET r == Stod(argv[3])
            IN  IF r.ok THEN target' = r.val /\ Goto("alloc")
                ELSE target' = target /\ Raise(r.exc)
       ELSE target' = target /\ Goto("alloc")
    /\ UNCHANGED <<argv, N, degree, x, rng, i, guard, lpm_val, upm_val,
                   lpm_ms, upm_ms, fn, reps, best, bi, stdout, path, writes,
                   measured, calls, rets, argsSeen>>

\* std::vector<double> x(N); std::mt19937_64 rng(123456789ULL); dist(0.0, 1.0)
\* The constructor throws std::length_error above max_size(); operator new may
\* throw std::bad_alloc for any non-empty request, and does so for every
\* request above MaxN elements.
Allocate ==
    /\ pc = "alloc"
    /\ path' = Append(path, "GenerateData")
    /\ \E fails \in BOOLEAN :
         IF N > VectorMaxSize
         THEN Raise("length_error") /\ UNCHANGED <<x, rng, i>>
         ELSE IF fails
         THEN N > 0 /\ Raise("bad_alloc") /\ UNCHANGED <<x, rng, i>>
         ELSE /\ N <= MaxN
              /\ x' = VectorOfSize(N)
              /\ rng' = RngInit
              /\ i' = 0
              /\ Goto("gen")
    /\ UNCHANGED <<argv, N, degree, target, guard, lpm_val, upm_val, lpm_ms,
                   upm_ms, fn, reps, best, bi, stdout, writes, measured,
                   calls, rets, argsSeen>>

\* for (i = 0; i < N; ++i) x[i] = dist(rng);    one iteration
GenStep ==
    /\ pc = "gen"
    /\ i < N
    /\ x' = [x EXCEPT ![i + 1] = DistOut(rng)]
    /\ rng' = RngStep(rng)
    /\ writes' = Append(writes, i)
    /\ i' = i + 1
    /\ UNCHANGED <<argv, pc, status, exception, N, degree, target, guard,
                   lpm_val, upm_val, lpm_ms, upm_ms, fn, reps, best, bi,
                   stdout, path, measured, calls, rets, argsSeen>>

\* the loop condition i < N fails
GenExit ==
    /\ pc = "gen"
    /\ i >= N
    /\ Goto("warm_lpm")
    /\ UNCHANGED <<argv, N, degree, target, x, rng, i, guard, lpm_val,
                   upm_val, lpm_ms, upm_ms, fn, reps, best, bi, stdout, path,
                   writes, measured, calls, rets, argsSeen>>

\* volatile double guard = 0.0; guard += NNS::LPM(degree, x, target);
WarmLPM ==
    /\ pc = "warm_lpm"
    /\ path' = Append(path, "WarmUp")
    /\ Invoke("LPM", "warm")
    /\ \E throws \in BOOLEAN, r \in KernelResults :
         IF throws
         THEN guard' = 0 /\ rets' = rets /\ Raise("kernel_error")
         ELSE /\ guard' = GuardAdd(0, r)
              /\ rets' = [rets EXCEPT !["LPM"]["warm"] = r]
              /\ Goto("warm_upm")
    /\ UNCHANGED <<argv, N, degree, target, rng, i, lpm_val, upm_val, lpm_ms,
                   upm_ms, fn, reps, best, bi, stdout, writes, measured>>

\* guard += NNS::UPM(degree, x, target);
WarmUPM ==
    /\ pc = "warm_upm"
    /\ Invoke("UPM", "warm")
    /\ \E throws \in BOOLEAN, r \in KernelResults :
         IF throws
         THEN guard' = guard /\ rets' = rets /\ Raise("kernel_error")
         ELSE /\ guard' = GuardAdd(guard, r)
              /\ rets' = [rets EXCEPT !["UPM"]["warm"] = r]
              /\ Goto("time_lpm")
    /\ UNCHANGED <<argv, N, degree, target, rng, i, lpm_val, upm_val, lpm_ms,
                   upm_ms, fn, reps, best, bi, stdout, path, writes, measured>>

\* double lpm_val = 0.0, upm_val = 0.0;
\* bench_best_ms([&] { lpm_val = NNS::LPM(degree, x, target); }) is entered:
\* long long best = numeric_limits<long long>::max(); int i = 0;
TimeLPM ==
    /\ pc = "time_lpm"
    /\ path' = Append(path, "TimeKernel1")
    /\ lpm_val' = 0
    /\ upm_val' = 0
    /\ fn' = "LPM"
    /\ reps' = DefaultReps
    /\ best' = LLongMax
    /\ bi' = 0
    /\ measured' = <<>>
    /\ Goto("bench")
    /\ UNCHANGED <<argv, N, degree, target, x, rng, i, guard, lpm_ms, upm_ms,
                   stdout, writes, calls, rets, argsSeen>>

\* One iteration of bench_best_ms: best = std::min(best, time_ms(fn));
BenchRep ==
    /\ pc = "bench"
    /\ bi < reps
    /\ Invoke(fn, "timed")
    /\ \E elapsed \in 0..MaxElapsed, throws \in BOOLEAN, r \in KernelResults :
         IF throws
         THEN /\ Raise("kernel_error")
              /\ UNCHANGED <<lpm_val, upm_val, best, bi, measured, rets>>
         ELSE /\ lpm_val' = LambdaStore(fn, r)[1]
              /\ upm_val' = LambdaStore(fn, r)[2]
              /\ rets' = [rets EXCEPT ![fn]["timed"] = r]
              /\ best' = StdMin(best, TimeMs(elapsed))
              /\ measured' = Append(measured, elapsed)
              /\ bi' = bi + 1
              /\ Goto("bench")
    /\ UNCHANGED <<argv, N, degree, target, rng, i, guard, lpm_ms, upm_ms, fn,
                   reps, stdout, path, writes>>

\* bench_best_ms returns best, which initialises lpm_ms or upm_ms.
BenchReturn ==
    /\ pc = "bench"
    /\ bi >= reps
    /\ IF fn = "LPM"
       THEN lpm_ms' = best /\ upm_ms' = upm_ms
       ELSE upm_ms' = best /\ lpm_ms' = lpm_ms
    /\ Goto(AfterBench(fn))
    /\ UNCHANGED <<argv, N, degree, target, x, rng, i, guard, lpm_val,
                   upm_val, fn, reps, best, bi, stdout, path, writes,
                   measured, calls, rets, argsSeen>>

\* bench_best_ms([&] { upm_val = NNS::UPM(degree, x, target); }) is entered.
TimeUPM ==
    /\ pc = "time_upm"
    /\ path' = Append(path, "TimeKernel2")
    /\ fn' = "UPM"
    /\ reps' = DefaultReps
    /\ best' = LLongMax
    /\ bi' = 0
    /\ measured' = <<>>
    /\ Goto("bench")
    /\ UNCHANGED <<argv, N, degree, target, x, rng, i, guard, lpm_val,
                   upm_val, lpm_ms, upm_ms, stdout, writes, calls, rets,
                   argsSeen>>

\* The seven lines written to std::cout.
Report ==
    /\ pc = "report"
    /\ path' = Append(path, "Report")
    /\ stdout' = stdout \o ReportLines
    /\ Goto("exit")
    /\ measured' = <<>>
    /\ UNCHANGED <<argv, N, degree, target, x, rng, i, guard, lpm_val,
                   upm_val, lpm_ms, upm_ms, fn, reps, best, bi, writes,
                   calls, rets, argsSeen>>

\* return 0;
ExitMain ==
    /\ pc = "exit"
    /\ path' = Append(path, "Exit0")
    /\ pc' = "done"
    /\ status' = "exit0"
    /\ UNCHANGED <<argv, exception, N, degree, target, x, rng, i, guard,
                   lpm_val, upm_val, lpm_ms, upm_ms, fn, reps, best, bi,
                   stdout, writes, measured, calls, rets, argsSeen>>

Next ==
    \/ ParseN
    \/ ParseDegree
    \/ ParseTarget
    \/ Allocate
    \/ GenStep
    \/ GenExit
    \/ WarmLPM
    \/ WarmUPM
    \/ TimeLPM
    \/ BenchRep
    \/ BenchReturn
    \/ TimeUPM
    \/ Report
    \/ ExitMain

Spec == Init /\ [][Next]_vars

(***************************************************************************)
(* bench_best_ms on its own: the call is entered with any repetition count *)
(* in 0..MaxReps (main() always passes the default).                       *)
(***************************************************************************)
InitBench ==
    /\ argv = << <<"0", ".", "1">> >>
    /\ pc = "bench"
    /\ status = "running"
    /\ exception = "none"
    /\ N = 0
    /\ degree = DefaultDegree * Scale
    /\ target = DefaultTarget * Scale
    /\ x = <<>>
    /\ rng = RngInit
    /\ i = 0
    /\ \E r1 \in KernelResults, r2 \in KernelResults :
         /\ guard = r1 + r2
         /\ rets = [k \in Kernels |->
                      [m \in Modes |-> IF m = "timed" THEN NotYet
                                       ELSE IF k = "LPM" THEN r1 ELSE r2]]
    /\ lpm_val = 0
    /\ upm_val = 0
    /\ lpm_ms = NotYet
    /\ upm_ms = NotYet
    /\ fn = "LPM"
    /\ reps \in 0..MaxReps
    /\ best = LLongMax
    /\ bi = 0
    /\ stdout = <<>>
    /\ path = <<"ParseArgs", "GenerateData", "WarmUp", "TimeKernel1">>
    /\ writes = <<>>
    /\ measured = <<>>
    /\ calls = [k \in Kernels |-> [m \in Modes |-> IF m = "warm" THEN 1 ELSE 0]]
    /\ argsSeen = {<<degree, x, target>>}

NextBench == BenchRep \/ BenchReturn

SpecBench == InitBench /\ [][NextBench]_vars

TypeOK ==
    /\ pc \in {"parse_n", "parse_degree", "parse_target", "alloc", "gen",
               "warm_lpm", "warm_upm", "time_lpm", "bench", "time_upm",
               "report", "exit", "done", "aborted"}
    /\ status \in {"running", "exit0", "terminate"}
    /\ N \in 0..(WordModulus - 1)

(***************************************************************************)
(* Auxiliary definitions of the properties.                                *)
(***************************************************************************)
RECURSIVE SeqMin(_)
SeqMin(q) ==
    IF Len(q) = 1 THEN q[1]
    ELSE LET m == SeqMin(Tail(q)) IN IF q[1] <= m THEN q[1] ELSE m

IsPrefix(p, q) == Len(p) <= Len(q) /\ SubSeq(q, 1, Len(p)) = p

FullPath ==
    <<"ParseArgs", "GenerateData", "WarmUp", "TimeKernel1", "TimeKernel2",
      "Report", "Exit0">>

ParseFailed == exception \in {"invalid_argument", "out_of_range"}
AllocFailed == exception \in {"length_error", "bad_alloc"}
KernelFailed == exception = "kernel_error"

\* The generation loop has finished.
Generated ==
    \/ pc \in {"warm_lpm", "warm_upm", "time_lpm", "bench", "time_upm",
               "report", "exit", "done"}
    \/ pc = "aborted" /\ KernelFailed

\* The engine state after n draws from the hard-coded seed.
RECURSIVE SeedStateAfter(_)
SeedStateAfter(n) ==
    IF n = 0 THEN Seed % RngModulus ELSE RngStep(SeedStateAfter(n - 1))

\* Token k is a numeric literal of its position's type and nothing else.
WellFormed(k, tok) ==
    IF k = 1 THEN Stoll(tok).ok /\ StollEnd(tok) = Len(tok) + 1
    ELSE Stod(tok).ok /\ StodEnd(tok) = Len(tok) + 1

AllWellFormed == \A k \in 1..Len(argv) : WellFormed(k, argv[k])

TimedCalls(k) == calls[k]["timed"]
WarmCalls(k) == calls[k]["warm"]

(***************************************************************************)
(* C1.  When bench_best_ms has returned from a call with R >= 1            *)
(* repetitions, R executions were measured and the value returned is the   *)
(* minimum of the R elapsed durations, rounded down to whole milliseconds. *)
(***************************************************************************)
C1_BestIsMinimum ==
    (pc = "time_upm" /\ reps >= 1) =>
        /\ Len(measured) = reps
        /\ lpm_ms = SeqMin(measured) \div TicksPerMs

\* Three repetitions whose minimum is neither the first nor the last one and
\* is not a whole number of milliseconds below the others.
C1_Witness ==
    /\ pc = "time_upm"
    /\ reps = 3
    /\ measured = <<3, 1, 2>>
    /\ lpm_ms = 0

(***************************************************************************)
(* C2 as claimed.  Every run whose arguments parse and whose kernels do    *)
(* not fail ends with exit code 0 after following the one path.            *)
(***************************************************************************)
C2_Original ==
    (status # "running" /\ ~ParseFailed /\ ~KernelFailed) =>
        (status = "exit0" /\ path = FullPath)

(***************************************************************************)
(* C2 as amended.  The steps begun are always a prefix of the one path;    *)
(* a run whose arguments parse, whose sample sequence is allocated and     *)
(* whose kernels do not fail ends with exit code 0 having taken every      *)
(* step once; no UPM timed repetition starts before the LPM timing is      *)
(* complete, and nothing is written before both timings are complete.      *)
(***************************************************************************)
C2_OnePath ==
    /\ IsPrefix(path, FullPath)
    /\ (status # "running" /\ ~ParseFailed /\ ~AllocFailed /\ ~KernelFailed) =>
           /\ status = "exit0"
           /\ path = FullPath
           /\ TimedCalls("LPM") = DefaultReps
           /\ TimedCalls("UPM") = DefaultReps
    /\ TimedCalls("UPM") > 0 =>
           (TimedCalls("LPM") = DefaultReps /\ lpm_ms # NotYet)
    /\ stdout # <<>> =>
           /\ lpm_ms # NotYet
           /\ upm_ms # NotYet
           /\ TimedCalls("LPM") = DefaultReps
           /\ TimedCalls("UPM") = DefaultReps

C2_Witness ==
    /\ status = "exit0"
    /\ path = FullPath
    /\ Len(stdout) = 7
    /\ Len(argv) = 3

(***************************************************************************)
(* C3.  If any supplied token is malformed (a numeric prefix followed by   *)
(* extra characters included), the run never gets past argument parsing:   *)
(* it ends in a non-zero exit with no sample generated, no kernel invoked  *)
(* and nothing written.                                                    *)
(***************************************************************************)
C3_MalformedTokenAborts ==
    ~AllWellFormed =>
        /\ pc \in {"parse_n", "parse_degree", "parse_target", "aborted"}
        /\ pc = "aborted" => (status = "terminate" /\ ParseFailed)
        /\ x = <<>>
        /\ writes = <<>>
        /\ \A k \in Kernels : WarmCalls(k) = 0 /\ TimedCalls(k) = 0
        /\ stdout = <<>>

(***************************************************************************)
(* C4.  When all supplied tokens are well formed, the resolved parameters  *)
(* are the values written in the tokens supplied and the defaults for the  *)
(* others; the sample size is the integer written in token 1, unchanged.   *)
(***************************************************************************)
C4_ResolvedParameters ==
    (AllWellFormed /\ pc = "alloc") =>
        /\ N = IF Len(argv) >= 1 THEN Stoll(argv[1]).val ELSE DefaultN
        /\ degree = IF Len(argv) >= 2 THEN Stod(argv[2]).val
                    ELSE DefaultDegree * Scale
        /\ target = IF Len(argv) >= 3 THEN Stod(argv[3]).val
                    ELSE DefaultTarget * Scale

(***************************************************************************)
(* C5.  Once a kernel invocation has raised an error the process has       *)
(* ended abnormally, nothing has been written, and no step (no retry, no   *)
(* other kernel invocation, no report) can follow.                         *)
(***************************************************************************)
C5_KernelErrorAborts ==
    KernelFailed =>
        /\ status = "terminate"
        /\ pc = "aborted"
        /\ stdout = <<>>
        /\ ~ENABLED Next

\* A timed repetition of UPM failed after the LPM timing was complete.
C5_Witness ==
    /\ KernelFailed
    /\ lpm_ms # NotYet
    /\ TimedCalls("UPM") = 2

(***************************************************************************)
(* C6.  From the end of data generation on, the sample sequence has        *)
(* exactly N elements and exactly N draws were taken, for the indices      *)
(* 0 .. N-1 in increasing order.                                           *)
(***************************************************************************)
C6_LengthInvariant ==
    Generated =>
        /\ Len(x) = N
        /\ Len(writes) = N
        /\ \A j \in 1..Len(writes) : writes[j] = j - 1

C6_Witness ==
    /\ pc = "done"
    /\ N = 2
    /\ writes = <<0, 1>>

(***************************************************************************)
(* C7.  The generated sequence is a function of the sample size alone:     *)
(* element j is the draw from the engine state reached by j-1 steps from   *)
(* the hard-coded seed, and after generation the engine state is the one   *)
(* reached by N steps, whatever the other arguments and the timings were.  *)
(***************************************************************************)
C7_Deterministic ==
    Generated =>
        /\ x = [j \in 1..N |-> DistOut(SeedStateAfter(j - 1))]
        /\ rng = SeedStateAfter(N)

\* A finished run with a non-empty sequence and non-default degree and target.
C7_Witness ==
    /\ pc = "done"
    /\ N = 12
    /\ Len(argv) = 3
    /\ degree # DefaultDegree * Scale
    /\ target # DefaultTarget * Scale

(***************************************************************************)
(* C8.  Each kernel is invoked untimed at most once, LPM before UPM; when  *)
(* a timed repetition has begun both were invoked untimed exactly once and *)
(* guard is the sum of their two results; every invocation received the    *)
(* fully generated sequence with the resolved degree and target; a         *)
(* successful run invoked each kernel 1 + 3 times.                         *)
(***************************************************************************)
C8_WarmUpOnce ==
    /\ \A k \in Kernels : WarmCalls(k) <= 1
    /\ WarmCalls("UPM") = 1 => WarmCalls("LPM") = 1
    /\ (TimedCalls("LPM") + TimedCalls("UPM") > 0 \/ pc = "bench") =>
           /\ \A k \in Kernels : WarmCalls(k) = 1
           /\ guard = rets["LPM"]["warm"] + rets["UPM"]["warm"]
    /\ argsSeen # {} => (Len(writes) = N /\ argsSeen = {<<degree, x, target>>})
    /\ status = "exit0" =>
           \A k \in Kernels : WarmCalls(k) + TimedCalls(k) = 1 + DefaultReps

C8_Witness ==
    /\ status = "exit0"
    /\ \A k \in Kernels : WarmCalls(k) + TimedCalls(k) = 4
    /\ guard = 2 * Scale

(***************************************************************************)
(* C9.  The LPM and UPM values in the report are the values returned by    *)
(* the last timed invocation of each kernel; once the LPM timing is        *)
(* complete lpm_val keeps that value while UPM is timed.                   *)
(***************************************************************************)
C9_ReportedValues ==
    /\ stdout # <<>> =>
           /\ stdout[6] = Line("LPM = #",
                  <<FormatDouble(rets["LPM"]["timed"], ReportPrecision)>>)
           /\ stdout[7] = Line("UPM = #",
                  <<FormatDouble(rets["UPM"]["timed"], ReportPrecision)>>)
    /\ TimedCalls("LPM") = DefaultReps => lpm_val = rets["LPM"]["timed"]

\* The reported values differ from the warm-up results, from 0.0 and from
\* each other.
C9_Witness ==
    /\ Len(stdout) = 7
    /\ rets["LPM"]["warm"] = 0
    /\ rets["LPM"]["timed"] = Scale
    /\ rets["UPM"]["warm"] = Scale
    /\ rets["UPM"]["timed"] = 0
    /\ stdout[6].vals = <<Scale>>

(***************************************************************************)
(* C10.  After data generation no step changes the sample sequence or the  *)
(* resolved parameters; a step of the timing loop changes, of the          *)
(* program's data, only best and the output variable of the kernel being   *)
(* timed, and the return only the timing result of that kernel; all        *)
(* kernel invocations receive one and the same argument triple.            *)
(***************************************************************************)
C10_Frame ==
    [][ /\ Generated => UNCHANGED <<N, degree, target, x, argv>>
        /\ pc = "bench" =>
              /\ UNCHANGED <<guard, rng, i, stdout>>
              /\ fn = "LPM" => UNCHANGED <<upm_val, upm_ms>>
              /\ fn = "UPM" => UNCHANGED <<lpm_val, lpm_ms>>
              /\ bi < reps => UNCHANGED <<lpm_ms, upm_ms>>
              /\ bi >= reps => UNCHANGED <<lpm_val, upm_val, best>>
        /\ Cardinality(argsSeen') <= 1 ]_vars

C10_Witness ==
    /\ status = "exit0"
    /\ N = 12
    /\ TimedCalls("LPM") + TimedCalls("UPM") + WarmCalls("LPM") + WarmCalls("UPM") = 8
    /\ argsSeen = {<<degree, x, target>>}

====
